---- MODULE Spec2Model ----
(***************************************************************************)
(* Model of add_missing_files.py: the script that patches an Xcode         *)
(* project manifest (project.pbxproj) by regular-expression search and     *)
(* str.replace on one text blob, after copying the file to a backup.       *)
(* The model conversion scripts follow, after the patcher and its claims.  *)
(*                                                                         *)
(* Text is a sequence of tokens.  A token is one regex-significant piece   *)
(* of the file: a newline, a section marker comment, the opening of a      *)
(* group or build-phase object, a "children = (" / "files = (" opener, a   *)
(* ")" or "}" closer, one record line (without its indentation and line    *)
(* end), or opaque text.  Whitespace is only ever a token of its own, so   *)
(* str.rstrip, str.replace and the three regular expressions act on the    *)
(* token sequence as they act on the characters.                           *)
(***************************************************************************)
EXTENDS Integers, Sequences, FiniteSets, TLC

\* ------------------------------------------------------------------ bounds
\* Invocations of the script in one behaviour.
MaxRuns == 2
\* uuid4() calls, counted from the start of a behaviour, whose result may
\* repeat an identifier already seen; every later call returns an unseen one.
MaxRepeatCalls == 2
\* Runs of a conversion script in one behaviour.
MaxConversions == 2

\* ------------------------------------------------------------------ tokens
Tok(k) == [k |-> k, id |-> 0, ref |-> 0, name |-> ""]
NL == Tok("NL")
TAB == Tok("TAB")
Other == Tok("Other")
BeginBuild == Tok("BeginBuild")
EndBuild == Tok("EndBuild")
BeginRef == Tok("BeginRef")
EndRef == Tok("EndRef")
SvcOpen == Tok("SvcOpen")
VCOpen == Tok("VCOpen")
SrcOpen == Tok("SrcOpen")
Children == Tok("Children")
Files == Tok("Files")
CloseParen == Tok("CloseParen")
CloseBrace == Tok("CloseBrace")

\* "<id> /* <name> in Sources */ = {isa = PBXBuildFile; fileRef = <ref> /* <name> */; };"
BuildLine(id, ref, name) == [k |-> "bf", id |-> id, ref |-> ref, name |-> name]
\* "<id> /* <name> */ = {isa = PBXFileReference; ...; path = <name>; ...; };"
RefLine(id, name) == [k |-> "fr", id |-> id, ref |-> 0, name |-> name]
\* "<id> /* <name> */,"
ChildLine(id, name) == [k |-> "ch", id |-> id, ref |-> 0, name |-> name]
\* "<id> /* <name> in Sources */,"
SourceLine(id, name) == [k |-> "src", id |-> id, ref |-> 0, name |-> name]

IsSpace(t) == t.k \in {"NL", "TAB"}
HasCloseBrace(t) == t.k \in {"CloseBrace", "bf", "fr"}
HasCloseParen(t) == t.k = "CloseParen"

Min(S) == CHOOSE x \in S : \A y \in S : x <= y
Max(S) == CHOOSE x \in S : \A y \in S : x >= y

\* ------------------------------------------------------------ str methods
\* str.rstrip(): the text without its trailing whitespace.
RStrip(s) ==
    LET keep == {i \in DOMAIN s : ~IsSpace(s[i])}
    IN  IF keep = {} THEN <<>> ELSE SubSeq(s, 1, Max(keep))

\* The concatenation of the texts ps[lo], ..., ps[hi].
RECURSIVE Concat(_, _, _)
Concat(ps, lo, hi) ==
    IF lo > hi THEN <<>>
    ELSE IF lo = hi THEN ps[lo]
    ELSE LET mid == (lo + hi) \div 2
         IN  Concat(ps, lo, mid) \o Concat(ps, mid + 1, hi)

\* Where old occurs in text.
Occurrences(text, old) ==
    {i \in 1..(Len(text) - Len(old) + 1) :
        text[i] = old[1] /\ SubSeq(text, i, i + Len(old) - 1) = old}

\* The occurrences str.replace and str.count take: scanning left to right,
\* each occurrence that starts at or after the end of the one before.
RECURSIVE Scan(_, _, _)
Scan(occ, len, from) ==
    LET later == {i \in occ : i >= from}
    IN  IF later = {} THEN {}
        ELSE {Min(later)} \cup Scan(occ, len, Min(later) + len)

\* (Occurrences that do not overlap are all taken.)
Matches(text, old) ==
    LET occ == Occurrences(text, old)
    IN  IF \A i \in occ : \A d \in 1..(Len(old) - 1) : i + d \notin occ
        THEN occ
        ELSE Scan(occ, Len(old), 1)

\* str.replace as it would be with count=1: the first match only.
Replace_First(text, old, new) ==
    LET occ == Occurrences(text, old)
    IN  IF old = <<>> THEN new \o text
        ELSE IF occ = {} THEN text
        ELSE SubSeq(text, 1, Min(occ) - 1) \o new
                 \o SubSeq(text, Min(occ) + Len(old), Len(text))

\* str.replace(old, new): every match gives way to new.  An empty old
\* matches before every character and at the end of the text; here that is
\* before every token, so this case is exact only for a text of
\* one-character tokens (no section of Manifests has an empty body).
Replace(text, old, new) ==
    IF old = <<>>
    THEN Concat([i \in DOMAIN text |-> new \o <<text[i]>>], 1, Len(text)) \o new
    ELSE LET ms == Matches(text, old)
             piece(i) ==
                 IF i \in ms THEN new
                 ELSE IF \E j \in ms : j < i /\ i < j + Len(old) THEN <<>>
                 ELSE <<text[i]>>
         IN  Concat([i \in DOMAIN text |-> piece(i)], 1, Len(text))

\* ------------------------------------------------------------- re.search
NoMatch == [found |-> FALSE, group |-> <<>>]

\* re.search(r'<begin>(.*?)<end>', text, re.DOTALL): the leftmost begin
\* marker that an end marker follows, and the text up to the nearest one.
SectionSearch(text, begin, end) ==
    LET bs == {i \in DOMAIN text : text[i] = begin}
    IN  IF bs = {} THEN NoMatch
        ELSE LET i == Min(bs)
                 es == {j \in DOMAIN text : j > i /\ text[j] = end}
             IN  IF es = {} THEN NoMatch
                 ELSE [found |-> TRUE, group |-> SubSeq(text, i + 1, Min(es) - 1)]

\* Positions of the opener `kw` that r'<open>[^}]+<kw>' can end in when it
\* starts at i: at least one character and no "}" in between.
OpenerEnds(text, i, kw) ==
    {k \in DOMAIN text :
        /\ k >= i + 2
        /\ text[k] = kw
        /\ \A j \in (i + 1)..(k - 1) : ~HasCloseBrace(text[j])}

\* re.search(r'(<open>[^}]+<kw>[^)]*)', text): leftmost start; [^}]+ is
\* greedy, so the last opener it can reach; then everything up to the
\* first ")" (or the end of the text).
ListSearch(text, open, kw) ==
    LET starts == {i \in DOMAIN text : text[i] = open /\ OpenerEnds(text, i, kw) # {}}
    IN  IF starts = {} THEN NoMatch
        ELSE LET i == Min(starts)
                 k == Max(OpenerEnds(text, i, kw))
                 ps == {m \in DOMAIN text : m > k /\ HasCloseParen(text[m])}
                 m == IF ps = {} THEN Len(text) + 1 ELSE Min(ps)
             IN  [found |-> TRUE, group |-> SubSeq(text, i, m - 1)]

\* ---------------------------------------------------------- files_to_add
files_to_add ==
    << "AutomaticSegmentationService.swift",
       "UrinaryTractSegmentationService.swift",
       "CoreMLSegmentationService.swift",
       "ModernStudyCell.swift",
       "StudyHeaderView.swift" >>

\* The names the script adds to the Core/Services group, in line order.
services_names ==
    << "AutomaticSegmentationService.swift",
       "UrinaryTractSegmentationService.swift",
       "CoreMLSegmentationService.swift" >>

\* The names the script adds to the ViewControllers group, in line order.
vc_names == << "ModernStudyCell.swift", "StudyHeaderView.swift" >>

\* -------------------------------------------------------------- manifests
\* The project files the script is run on: two lines of other text around
\* the five places it patches.  Each place is present or absent, in every
\* combination; with all five present, the PBXBuildFile section may also
\* be empty, end in a blank line or be there twice (its markers occurring
\* twice), and there may be two targets whose Sources phases list the same
\* files.
OldName == "AppDelegate.swift"

BuildPart(v) ==
    CASE v = "absent" -> <<>>
      [] v = "empty"  -> <<BeginBuild, NL, EndBuild, NL>>
      [] v = "normal" -> <<BeginBuild, NL, BuildLine(1, 2, OldName), NL, EndBuild, NL>>
      [] v = "blank"  -> <<BeginBuild, NL, BuildLine(1, 2, OldName), NL, NL, EndBuild, NL>>
      [] v = "twice"  -> <<BeginBuild, NL, BuildLine(1, 2, OldName), NL, EndBuild, NL,
                           BeginBuild, NL, EndBuild, NL>>

RefPart(v) ==
    CASE v = "absent" -> <<>>
      [] v = "normal" -> <<BeginRef, NL, RefLine(2, OldName), NL, EndRef, NL>>

SvcPart(v) ==
    CASE v = "absent"  -> <<>>
      [] v = "present" -> <<SvcOpen, NL, Children, NL, ChildLine(2, OldName), NL,
                            CloseParen, NL, CloseBrace, NL>>

VCPart(v) ==
    CASE v = "absent"  -> <<>>
      [] v = "present" -> <<VCOpen, NL, Children, NL, TAB, CloseParen, NL, CloseBrace, NL>>

OnePhase ==
    <<SrcOpen, NL, Files, NL, SourceLine(1, OldName), NL, CloseParen, NL, CloseBrace, NL>>

SrcPart(v) ==
    CASE v = "absent" -> <<>>
      [] v = "one"    -> OnePhase
      [] v = "two"    -> OnePhase \o OnePhase

Manifest(b, r, s, v, p) ==
    <<Other, NL>> \o BuildPart(b) \o RefPart(r) \o SvcPart(s) \o VCPart(v)
        \o SrcPart(p) \o <<Other, NL>>

Manifests ==
    {Manifest(b, r, s, v, p) :
        b \in {"absent", "normal"},
        r \in {"absent", "normal"},
        s \in {"absent", "present"},
        v \in {"absent", "present"},
        p \in {"absent", "one"}}
    \cup {Manifest(b, "normal", "present", "present", "one") :
              b \in {"empty", "blank", "twice"}}
    \cup {Manifest("normal", "normal", "present", "present", "two")}

\* ------------------------------------------------------------------ state
VARIABLES
    disk,           \* content of the file at project_file
    backup_exists,  \* whether project_file + ".backup_add_files" exists
    backup,         \* its content
    pc,             \* position of the script
    exc,            \* the call that raised, when pc = "crashed"
    content,        \* local: the text being patched
    file_refs,      \* local dict: name -> identifier
    build_refs,     \* local dict: name -> identifier
    idx,            \* local: position of the loop of lines 46-48
    printed,        \* the names printed by lines 108-110
    orig,           \* history: the file's content when this run started
    wrote,          \* history: this run opened project_file for writing
    runs,           \* history: invocations so far
    calls,          \* history: uuid4() calls so far
    stages,         \* history: what this run has done so far, in order
    minted,         \* history: uuid4() calls of this run
    before_step,    \* history: the local text before the latest patch
    prev_done,      \* history: the invocation before this one ended well
    prev_orig,      \* history: the content that invocation started from
    last_writer,    \* history: the invocation that wrote the file last
    batch,          \* the list files_to_add the script runs with
    who,            \* the invocation that is running: 1 or 2
    other           \* the locals of the invocation that is not running

\* The model conversion scripts (scripts/convert_full_model.py and
\* docker/convert_model.py).
VARIABLES
    script,         \* which of the two scripts is running
    input_size,     \* args.input_size
    cpc,            \* position of the script
    results,        \* local dict of convert_to_coreml, as its keys in order
    metadata,       \* user_defined_metadata of each converted model
    saved_models,   \* local list of convert_to_coreml / main
    files,          \* the files in the output directory
    stdout,         \* the lines printed that tell how the run ended
    status,         \* exit status of the process, -1 while there is none
    launcher,       \* where convert.py is: "none", "running", "exited"
    exit_code       \* exit code of convert.py, -1 while there is none

\* What no step of the script changes, and the history most steps leave.
sched_vars == <<batch, who, other>>
hist_vars == <<minted, before_step, prev_done, prev_orig, last_writer>>

patch_vars == <<disk, backup_exists, backup, pc, exc, content, file_refs,
                build_refs, idx, printed, orig, wrote, runs, calls, stages,
                hist_vars, sched_vars>>

Names == {batch[n] : n \in DOMAIN batch}

launch_vars == <<launcher, exit_code>>

conv_vars == <<script, input_size, cpc, results, metadata, saved_models, files,
               stdout, status, launch_vars>>

vars == <<patch_vars, conv_vars>>

EmptyDict == [n \in {} |-> 0]

Values(d) == {d[n] : n \in DOMAIN d}

\* Every identifier written in a text.
IdsIn(text) ==
    {text[j].id : j \in {x \in DOMAIN text : text[x].k \in {"bf", "fr", "ch", "src"}}}
        \cup {text[j].ref : j \in {x \in DOMAIN text : text[x].k = "bf"}}

\* No conversion script is running.
ConverterIdle ==
    /\ script = "none"
    /\ input_size = 0
    /\ cpc = "idle"
    /\ results = <<>>
    /\ metadata = EmptyDict
    /\ saved_models = <<>>
    /\ files = {}
    /\ stdout = <<>>
    /\ status = -1
    /\ launcher = "none"
    /\ exit_code = -1

\* The locals (and the history) of an invocation that has not started.
IdleLocals(text) ==
    [pc |-> "idle", exc |-> "none", content |-> <<>>, file_refs |-> EmptyDict,
     build_refs |-> EmptyDict, idx |-> 1, printed |-> <<>>, orig |-> text,
     wrote |-> FALSE, stages |-> <<>>, minted |-> 0, before_step |-> <<>>,
     prev_done |-> FALSE, prev_orig |-> <<>>]

\* Those of the invocation that is running.
Locals ==
    [pc |-> pc, exc |-> exc, content |-> content, file_refs |-> file_refs,
     build_refs |-> build_refs, idx |-> idx, printed |-> printed, orig |-> orig,
     wrote |-> wrote, stages |-> stages, minted |-> minted,
     before_step |-> before_step, prev_done |-> prev_done,
     prev_orig |-> prev_orig]

\* Nothing has run yet: the project file holds text, there is no backup,
\* and the script's list is list.
NotStarted(text, list) ==
    /\ disk = text
    /\ batch = list
    /\ backup_exists = FALSE
    /\ backup = <<>>
    /\ pc = "idle"
    /\ exc = "none"
    /\ content = <<>>
    /\ file_refs = EmptyDict
    /\ build_refs = EmptyDict
    /\ idx = 1
    /\ printed = <<>>
    /\ orig = text
    /\ wrote = FALSE
    /\ stages = <<>>
    /\ minted = 0
    /\ before_step = <<>>
    /\ prev_done = FALSE
    /\ prev_orig = <<>>
    /\ other = IdleLocals(text)
    /\ who = 1
    /\ last_writer = 0
    /\ runs = 0
    /\ calls = 0

Init ==
    /\ ConverterIdle
    /\ \E text \in Manifests : NotStarted(text, files_to_add)

\* ---------------------------------------------------------------- actions
\* Lines 8-13: the script is started and reads the whole file.
ReadProject ==
    /\ pc \in {"idle", "done", "crashed"}
    /\ runs < MaxRuns
    /\ runs' = runs + 1
    /\ orig' = disk
    /\ wrote' = FALSE
    /\ content' = disk
    /\ file_refs' = EmptyDict
    /\ build_refs' = EmptyDict
    /\ idx' = 1
    /\ printed' = <<>>
    /\ exc' = "none"
    /\ pc' = "backup"
    /\ stages' = <<"Parsed">>
    /\ minted' = 0
    /\ before_step' = disk
    /\ prev_done' = (pc = "done")
    /\ prev_orig' = orig
    /\ UNCHANGED <<disk, backup_exists, backup, calls, last_writer>>
    /\ UNCHANGED <<sched_vars, conv_vars>>

\* MakeBackup as it would be if an existing backup were kept, not replaced.
MakeBackup_KeepOld ==
    /\ pc = "backup"
    /\ backup_exists' = TRUE
    /\ backup' = IF backup_exists THEN backup ELSE disk
    /\ pc' = "alloc"
    /\ stages' = Append(stages, "BackedUp")
    /\ UNCHANGED <<disk, exc, content, file_refs, build_refs, idx, printed,
                   orig, wrote, runs, calls>>
    /\ UNCHANGED <<hist_vars, sched_vars, conv_vars>>

\* Line 16: shutil.copy(project_file, project_file + ".backup_add_files")
\* copies the file as it is on disk now, replacing an older backup.
MakeBackup ==
    /\ pc = "backup"
    /\ backup_exists' = TRUE
    /\ backup' = disk
    /\ pc' = "alloc"
    /\ stages' = Append(stages, "BackedUp")
    /\ UNCHANGED <<disk, exc, content, file_refs, build_refs, idx, printed,
                   orig, wrote, runs, calls>>
    /\ UNCHANGED <<hist_vars, sched_vars, conv_vars>>

\* BackupFails as it would be if the exception were caught and the run went on.
BackupFails_Swallowed ==
    /\ pc = "backup"
    /\ UNCHANGED <<backup_exists, backup>>
    /\ pc' = "alloc"
    /\ exc' = "copy"
    /\ UNCHANGED <<disk, content, file_refs, build_refs, idx, printed,
                   orig, wrote, runs, calls, stages>>
    /\ UNCHANGED <<hist_vars, sched_vars, conv_vars>>

\* Line 16 raising: the destination cannot be created (nothing changes), or
\* the copy stops after the destination was created or truncated.  The
\* exception is not caught, so the script ends there.
BackupFails ==
    /\ pc = "backup"
    /\ \/ UNCHANGED <<backup_exists, backup>>
       \/ backup_exists' = TRUE /\ backup' = <<>>
    /\ pc' = "crashed"
    /\ exc' = "copy"
    /\ stages' = Append(stages, "Failed")
    /\ UNCHANGED <<disk, content, file_refs, build_refs, idx, printed,
                   orig, wrote, runs, calls>>
    /\ UNCHANGED <<hist_vars, sched_vars, conv_vars>>

\* str(uuid.uuid4()).replace('-', '').upper()[:24] is any 24-digit
\* identifier; nothing compares it with the identifiers in use.
\* Identifiers not seen so far are interchangeable, so the least unused
\* number stands for all of them; each identifier already seen (in the
\* text read, or returned earlier in this run) is an outcome of its own,
\* open to the first MaxRepeatCalls calls of a behaviour.
FreshId(seen) == Max(seen \cup {0}) + 1

uuid4(seen, call) ==
    {FreshId(seen)} \cup (IF call <= MaxRepeatCalls THEN seen ELSE {})

\* (The identifiers another invocation holds count as seen: an unseen
\* identifier is one no invocation has met.)
SeenIds ==
    IdsIn(content) \cup Values(file_refs) \cup Values(build_refs)
        \cup Values(other.file_refs) \cup Values(other.build_refs)

\* Lines 46-48, one iteration: two identifiers for files_to_add[idx].
Allocate ==
    /\ pc = "alloc"
    /\ idx <= Len(batch)
    /\ LET name == batch[idx]
       IN  \E f \in uuid4(SeenIds, calls + 1) :
           \E b \in uuid4(SeenIds \cup {f}, calls + 2) :
               /\ file_refs' = [n \in DOMAIN file_refs \cup {name} |->
                                   IF n = name THEN f ELSE file_refs[n]]
               /\ build_refs' = [n \in DOMAIN build_refs \cup {name} |->
                                   IF n = name THEN b ELSE build_refs[n]]
    /\ calls' = calls + 2
    /\ idx' = idx + 1
    /\ pc' = IF idx = Len(batch) THEN "build" ELSE "alloc"
    /\ stages' = IF idx = Len(batch) THEN Append(stages, "Allocated")
                 ELSE stages
    /\ minted' = minted + 2
    /\ UNCHANGED <<disk, backup_exists, backup, exc, content, printed,
                   orig, wrote, runs>>
    /\ UNCHANGED <<before_step, prev_done, prev_orig, last_writer>>
    /\ UNCHANGED <<sched_vars, conv_vars>>

\* Lines 56-58 and 70-72, 100-101: the lines rendered for every file.
RECURSIVE new_build_entries(_)
new_build_entries(n) ==
    IF n = 0 THEN <<>>
    ELSE new_build_entries(n - 1) \o
         <<BuildLine(build_refs[batch[n]], file_refs[batch[n]],
                     batch[n]), NL>>

\* new_file_entries as it would be if a request whose name came earlier in
\* the list got an identifier of its own.
new_file_entries_PerRequest(n) ==
    Concat([i \in 1..n |->
               <<RefLine(IF \E m \in 1..(i - 1) : batch[m] = batch[i]
                             THEN file_refs[batch[i]] + 1
                             ELSE file_refs[batch[i]],
                         batch[i]), NL>>], 1, n)

RECURSIVE new_file_entries(_)
new_file_entries(n) ==
    IF n = 0 THEN <<>>
    ELSE new_file_entries(n - 1) \o
         <<RefLine(file_refs[batch[n]], batch[n]), NL>>

RECURSIVE new_source_lines(_)
new_source_lines(n) ==
    IF n = 0 THEN <<>>
    ELSE new_source_lines(n - 1) \o
         <<NL, SourceLine(build_refs[batch[n]], batch[n])>>

\* new_group_lines as it would be with the build-file identifiers.
new_group_lines_BuildRefs(names, n) ==
    Concat([i \in 1..n |-> <<NL, ChildLine(build_refs[names[i]], names[i])>>], 1, n)

\* Lines 82-84 and 91-92: one "\n\t\t\t\t<id> /* <name> */," per name.
RECURSIVE new_group_lines(_, _)
new_group_lines(names, n) ==
    IF n = 0 THEN <<>>
    ELSE new_group_lines(names, n - 1) \o <<NL, ChildLine(file_refs[names[n]], names[n])>>

\* AppendToSection as it would be if the entries were put before the body.
AppendToSection_Prepend(text, body, entries) ==
    Replace(text, body, <<NL>> \o entries \o body)

\* Lines 61-62 and 75-76: body.rstrip() + "\n" + entries replaces the body
\* wherever the body's text occurs.
AppendToSection(text, body, entries) ==
    Replace(text, body, RStrip(body) \o <<NL>> \o entries)

\* PatchBuildFiles as it would be if the whole match (group(0), markers
\* included) were replaced by the new body.
PatchBuildFiles_WholeMatch(text) ==
    LET m == SectionSearch(text, BeginBuild, EndBuild)
    IN  IF m.found
        THEN Replace(text, <<BeginBuild>> \o m.group \o <<EndBuild>>,
                     RStrip(m.group) \o <<NL>> \o new_build_entries(Len(batch)))
        ELSE text

\* Lines 50-62.
PatchBuildFiles(text) ==
    LET m == SectionSearch(text, BeginBuild, EndBuild)
    IN  IF m.found
        THEN AppendToSection(text, m.group, new_build_entries(Len(batch)))
        ELSE text

\* PatchFileReferences as it would be if the new entries replaced the body
\* instead of following it.
PatchFileReferences_Overwrite(text) ==
    LET m == SectionSearch(text, BeginRef, EndRef)
    IN  IF m.found
        THEN Replace(text, m.group, <<NL>> \o new_file_entries(Len(batch)))
        ELSE text

\* Lines 64-76.
PatchFileReferences(text) ==
    LET m == SectionSearch(text, BeginRef, EndRef)
    IN  IF m.found
        THEN AppendToSection(text, m.group, new_file_entries(Len(batch)))
        ELSE text

\* Lines 85, 93 and 102: the matched text, with the new lines after it,
\* replaces the matched text wherever it occurs.
AppendToList(text, open, kw, lines) ==
    LET m == ListSearch(text, open, kw)
    IN  IF m.found THEN Replace(text, m.group, m.group \o lines) ELSE text

\* Lines 78-85.
PatchServicesGroup(text) ==
    AppendToList(text, SvcOpen, Children, new_group_lines(services_names, Len(services_names)))

\* Lines 87-93.
PatchViewControllersGroup(text) ==
    AppendToList(text, VCOpen, Children, new_group_lines(vc_names, Len(vc_names)))

\* Lines 95-102.
PatchSourcesPhase(text) ==
    AppendToList(text, SrcOpen, Files, new_source_lines(Len(batch)))

\* Step as it would be if every patch were saved to the file at once.
Step_WriteThrough(here, patched, next) ==
    /\ pc = here
    /\ content' = patched
    /\ disk' = patched
    /\ pc' = next
    /\ stages' = IF next = "open" THEN Append(stages, "Linked") ELSE stages
    /\ before_step' = content
    /\ UNCHANGED <<backup_exists, backup, exc, file_refs, build_refs, idx,
                   printed, orig, wrote, runs, calls>>
    /\ UNCHANGED <<minted, prev_done, prev_orig, last_writer>>
    /\ UNCHANGED <<sched_vars, conv_vars>>

\* One of the five patches of lines 50-102; after the last of them every
\* new body and list is in the local text.
Step(here, patched, next) ==
    /\ pc = here
    /\ content' = patched
    /\ pc' = next
    /\ stages' = IF next = "open" THEN Append(stages, "Linked") ELSE stages
    /\ before_step' = content
    /\ UNCHANGED <<disk, backup_exists, backup, exc, file_refs, build_refs, idx,
                   printed, orig, wrote, runs, calls>>
    /\ UNCHANGED <<minted, prev_done, prev_orig, last_writer>>
    /\ UNCHANGED <<sched_vars, conv_vars>>

AddBuildFiles == Step("build", PatchBuildFiles(content), "fileref")
AddFileReferences == Step("fileref", PatchFileReferences(content), "services")
AddToServicesGroup == Step("services", PatchServicesGroup(content), "vc")
AddToViewControllersGroup == Step("vc", PatchViewControllersGroup(content), "sources")
AddToSourcesPhase == Step("sources", PatchSourcesPhase(content), "open")

\* Line 105: open(project_file, 'w') truncates the file.
OpenForWrite ==
    /\ pc = "open"
    /\ disk' = <<>>
    /\ wrote' = TRUE
    /\ pc' = "write"
    /\ stages' = Append(stages, "Opened")
    /\ UNCHANGED <<backup_exists, backup, exc, content, file_refs, build_refs,
                   idx, printed, orig, runs, calls>>
    /\ UNCHANGED <<hist_vars, sched_vars, conv_vars>>

\* Line 105 raising (the file cannot be opened for writing).
OpenFails ==
    /\ pc = "open"
    /\ pc' = "crashed"
    /\ exc' = "open"
    /\ stages' = Append(stages, "Failed")
    /\ UNCHANGED <<disk, backup_exists, backup, content, file_refs, build_refs,
                   idx, printed, orig, wrote, runs, calls>>
    /\ UNCHANGED <<hist_vars, sched_vars, conv_vars>>

\* What the file holds once text has been written from its start: the
\* file was emptied when it was opened, so anything it holds now was
\* written by another invocation since, and what of that lies beyond the
\* text stays.
Overlay(text) == text \o SubSeq(disk, Len(text) + 1, Len(disk))

\* WriteContent as it would be with the file opened in append mode.
WriteContent_Append ==
    /\ pc = "write"
    /\ disk' = disk \o content
    /\ last_writer' = who
    /\ pc' = "print"
    /\ stages' = Append(stages, "Written")
    /\ UNCHANGED <<backup_exists, backup, exc, content, file_refs, build_refs,
                   idx, printed, orig, wrote, runs, calls>>
    /\ UNCHANGED <<minted, before_step, prev_done, prev_orig>>
    /\ UNCHANGED <<sched_vars, conv_vars>>

\* Line 106: f.write(content), and the file is closed.
WriteContent ==
    /\ pc = "write"
    /\ disk' = Overlay(content)
    /\ last_writer' = who
    /\ pc' = "print"
    /\ stages' = Append(stages, "Written")
    /\ UNCHANGED <<backup_exists, backup, exc, content, file_refs, build_refs,
                   idx, printed, orig, wrote, runs, calls>>
    /\ UNCHANGED <<minted, before_step, prev_done, prev_orig>>
    /\ UNCHANGED <<sched_vars, conv_vars>>

\* WriteFails as it would be if the exception were caught and the summary
\* printed all the same.
WriteFails_Swallowed ==
    /\ pc = "write"
    /\ disk' \in {Overlay(<<>>), Overlay(SubSeq(content, 1, Len(content) \div 2))}
    /\ last_writer' = who
    /\ pc' = "print"
    /\ exc' = "write"
    /\ stages' = Append(stages, "Failed")
    /\ UNCHANGED <<backup_exists, backup, content, file_refs, build_refs,
                   idx, printed, orig, wrote, runs, calls>>
    /\ UNCHANGED <<minted, before_step, prev_done, prev_orig>>
    /\ UNCHANGED <<sched_vars, conv_vars>>

\* Line 106 raising (the device is full, say): nothing of the text got
\* out, or a part of it.
WriteFails ==
    /\ pc = "write"
    /\ disk' \in {Overlay(<<>>), Overlay(SubSeq(content, 1, Len(content) \div 2))}
    /\ last_writer' = who
    /\ pc' = "crashed"
    /\ exc' = "write"
    /\ stages' = Append(stages, "Failed")
    /\ UNCHANGED <<backup_exists, backup, content, file_refs, build_refs,
                   idx, printed, orig, wrote, runs, calls>>
    /\ UNCHANGED <<minted, before_step, prev_done, prev_orig>>
    /\ UNCHANGED <<sched_vars, conv_vars>>

\* Lines 108-110.
PrintSummary ==
    /\ pc = "print"
    /\ printed' = batch
    /\ pc' = "done"
    /\ UNCHANGED <<disk, backup_exists, backup, exc, content, file_refs,
                   build_refs, idx, orig, wrote, runs, calls, stages>>
    /\ UNCHANGED <<hist_vars, sched_vars, conv_vars>>

Next ==
    \/ ReadProject
    \/ MakeBackup
    \/ BackupFails
    \/ Allocate
    \/ AddBuildFiles
    \/ AddFileReferences
    \/ AddToServicesGroup
    \/ AddToViewControllersGroup
    \/ AddToSourcesPhase
    \/ OpenForWrite
    \/ OpenFails
    \/ WriteContent
    \/ WriteFails
    \/ PrintSummary

Spec == Init /\ [][Next]_vars

\* ------------------------------------------------- the list as an input
\* The manifest with all five places.
FullManifest == Manifest("normal", "normal", "present", "present", "one")

\* The list of lines 19-40, and the list with a request listed again (the
\* first, a service; the last, a view).
Batches ==
    {files_to_add} \cup {Append(files_to_add, files_to_add[i]) : i \in {1, Len(files_to_add)}}

BatchInit ==
    /\ ConverterIdle
    /\ \E list \in Batches : NotStarted(FullManifest, list)

BatchSpec == BatchInit /\ [][Next]_vars

\* ------------------------------------------------------ two invocations
\* The scheduler takes the processor from the running invocation, before
\* it starts or before one of its calls on the file system (copy, open,
\* write), and gives it to the other one.  The steps in between touch only
\* the invocation's own memory.  The processor goes to an invocation that
\* is under way, or from one that is under way to one that has not
\* started; an invocation that has ended is not given it again, and while
\* none is under way the next one starts where the processor is.
Switch ==
    /\ pc \in {"idle", "done", "crashed", "backup", "open", "write"}
    /\ \/ other.pc \in {"backup", "open", "write"}
       \/ other.pc = "idle" /\ pc \in {"backup", "open", "write"}
    /\ who' = 3 - who
    /\ other' = Locals
    /\ pc' = other.pc
    /\ exc' = other.exc
    /\ content' = other.content
    /\ file_refs' = other.file_refs
    /\ build_refs' = other.build_refs
    /\ idx' = other.idx
    /\ printed' = other.printed
    /\ orig' = other.orig
    /\ wrote' = other.wrote
    /\ stages' = other.stages
    /\ minted' = other.minted
    /\ before_step' = other.before_step
    /\ prev_done' = other.prev_done
    /\ prev_orig' = other.prev_orig
    /\ UNCHANGED <<disk, backup_exists, backup, runs, calls, last_writer, batch>>
    /\ UNCHANGED conv_vars

ConcInit ==
    /\ ConverterIdle
    /\ NotStarted(FullManifest, files_to_add)

ConcNext ==
    \/ ReadProject
    \/ MakeBackup
    \/ BackupFails
    \/ Allocate
    \/ AddBuildFiles
    \/ AddFileReferences
    \/ AddToServicesGroup
    \/ AddToViewControllersGroup
    \/ AddToSourcesPhase
    \/ OpenForWrite
    \/ OpenFails
    \/ WriteContent
    \/ WriteFails
    \/ PrintSummary
    \/ Switch

ConcSpec == ConcInit /\ [][ConcNext]_vars

\* ----------------------------------------------------------------- claims
\* What the claims speak of, in terms of the state.

\* The run went through to its last line: a successful patch.
Patched == pc = "done"

\* The lines this run rendered for the name n.
NewRefLine(n) == RefLine(file_refs[n], n)
NewBuildLine(n) == BuildLine(build_refs[n], file_refs[n], n)
NewChildLine(n) == ChildLine(file_refs[n], n)
NewSourceLine(n) == SourceLine(build_refs[n], n)

Positions(text, t) == {j \in DOMAIN text : text[j] = t}
KindPositions(text, k) == {j \in DOMAIN text : text[j].k = k}

\* The records that define an identifier: the lines of the two sections.
Definitions(text) == KindPositions(text, "bf") \cup KindPositions(text, "fr")

UniqueDefinitions(text) ==
    \A i, j \in Definitions(text) : i # j => text[i].id # text[j].id

\* C1: after a successful patch no two identifiers of the manifest are
\* equal: no two records of the result define the same identifier, be it
\* one the manifest held before or one minted in this run.
C1_IdentifiersUnique == Patched => UniqueDefinitions(disk)

\* C2: after a successful patch every inserted PBXBuildFile line's fileRef
\* is defined by exactly one PBXFileReference record of the manifest, and
\* every inserted Sources line's identifier by exactly one PBXBuildFile
\* record.
C2_BuildRecordsResolve ==
    Patched =>
        \A n \in Names :
            /\ Positions(disk, NewBuildLine(n)) # {} =>
                  Cardinality({i \in KindPositions(disk, "fr") :
                                   disk[i].id = file_refs[n]}) = 1
            /\ Positions(disk, NewSourceLine(n)) # {} =>
                  Cardinality({i \in KindPositions(disk, "bf") :
                                   disk[i].id = build_refs[n]}) = 1

\* C3: after a successful patch the identifier of each file reference the
\* run inserted is on exactly one line of the group lists, and its
\* build-file identifier on exactly one line of the build-phase lists.
C3_ExactlyOneMembership ==
    Patched =>
        \A n \in Names :
            Positions(disk, NewRefLine(n)) # {} =>
                /\ Cardinality({j \in KindPositions(disk, "ch") :
                                   disk[j].id = file_refs[n]}) = 1
                /\ Cardinality({j \in KindPositions(disk, "src") :
                                   disk[j].id = build_refs[n]}) = 1

\* A line this run rendered.
Inserted(t) ==
    \E n \in Names :
        t \in {NewRefLine(n), NewBuildLine(n), NewChildLine(n), NewSourceLine(n)}

\* The text without the lines this run rendered: a section entry goes with
\* the line end after it, a list line with the line end before it.
WithoutInserted(text) ==
    LET gone(j) ==
            \/ Inserted(text[j])
            \/ /\ text[j] = NL
               /\ \/ j > 1 /\ text[j - 1].k \in {"bf", "fr"} /\ Inserted(text[j - 1])
                  \/ j < Len(text) /\ text[j + 1].k \in {"ch", "src"}
                        /\ Inserted(text[j + 1])
    IN  Concat([j \in DOMAIN text |-> IF gone(j) THEN <<>> ELSE <<text[j]>>],
               1, Len(text))

\* Position j lies after an opening token and before the next closing one.
Within(text, j, opening, closing) ==
    \E i \in 1..(j - 1) :
        /\ text[i] \in opening
        /\ \A m \in i..j : text[m].k \notin closing

\* Every inserted line lies in the place meant for its kind.
InsertedInPlace(text) ==
    \A j \in DOMAIN text :
        Inserted(text[j]) =>
            CASE text[j].k = "bf" -> Within(text, j, {BeginBuild}, {"EndBuild"})
              [] text[j].k = "fr" -> Within(text, j, {BeginRef}, {"EndRef"})
              [] text[j].k = "ch" ->
                    Within(text, j, {SvcOpen, VCOpen}, {"CloseParen", "CloseBrace"})
              [] text[j].k = "src" ->
                    Within(text, j, {SrcOpen}, {"CloseParen", "CloseBrace"})

\* C4: after a successful patch the text outside the targeted places is the
\* original's: every inserted line lies in its section or list, and the
\* output without the inserted lines is the input.
C4_RestUnchanged ==
    Patched => InsertedInPlace(disk) /\ WithoutInserted(disk) = orig

\* A required section of the text has no begin/end marker pair.
SectionMissing(text) ==
    \/ ~SectionSearch(text, BeginBuild, EndBuild).found
    \/ ~SectionSearch(text, BeginRef, EndRef).found

\* A target group of the batch is not in the text.
GroupMissing(text) ==
    \/ ~ListSearch(text, SvcOpen, Children).found
    \/ ~ListSearch(text, VCOpen, Children).found

\* C5: a run on a manifest that lacks a required section does not open the
\* manifest for writing, leaves it as it was, and does not end as a
\* successful patch.
C5_MissingSectionRejected ==
    SectionMissing(orig) => ~wrote /\ disk = orig /\ ~Patched

\* C6: a run on a manifest that lacks a target group of the batch does not
\* open the manifest for writing, leaves it as it was, and does not end as
\* a successful patch.
C6_MissingGroupRejected ==
    GroupMissing(orig) => ~wrote /\ disk = orig /\ ~Patched

\* Every request has its four lines in the text.
FullyApplied(text) ==
    \A n \in Names :
        /\ Positions(text, NewRefLine(n)) # {}
        /\ Positions(text, NewBuildLine(n)) # {}
        /\ Positions(text, NewChildLine(n)) # {}
        /\ Positions(text, NewSourceLine(n)) # {}

\* C7: all or nothing: once the run has written its text, the manifest is
\* the original or holds all four lines of every request.
C7_AllOrNothing ==
    pc \in {"print", "done"} => disk = orig \/ FullyApplied(disk)

\* C8: whenever the run has opened the manifest for writing, the backup
\* file exists and holds the content the manifest had when the run
\* started; it still does after a successful patch.
C8_BackupBeforeWrite == wrote => backup_exists /\ backup = orig

\* A second run has opened the manifest for writing: the backup is the
\* first run's output, which the second run read.
C8_Witness ==
    /\ runs = 2
    /\ pc = "done"
    /\ wrote
    /\ backup_exists
    /\ backup = orig
    /\ disk # orig

\* C9: a run whose backup copy failed has ended there, has not opened the
\* manifest for writing, and has left the manifest as it was.
C9_NoBackupNoWrite ==
    exc = "copy" => pc = "crashed" /\ ~wrote /\ disk = orig /\ content = orig

\* The copy failed in a first run, with no backup file made.
C9_Witness ==
    /\ exc = "copy"
    /\ pc = "crashed"
    /\ ~backup_exists
    /\ disk = orig

\* C10: a run that failed has left the manifest with its original content,
\* and, unless the copy itself failed, the backup in place.
C10_FailureLeavesOriginal ==
    pc = "crashed" =>
        /\ disk = orig
        /\ exc # "copy" => backup_exists /\ backup = orig

\* ------------------------------------------------------- claims C11 - C18
IsPrefix(a, b) == Len(a) <= Len(b) /\ SubSeq(b, 1, Len(a)) = a

\* The stages in the order the design's state machine gives them, and in
\* the order of the script's lines (16, 46-48, 50-102, 105-106).
DesignStages == <<"Parsed", "Allocated", "Linked", "BackedUp", "Written">>
ScriptStages == <<"Parsed", "BackedUp", "Allocated", "Linked", "Written">>

IsStage(s) == s \in {"Parsed", "Allocated", "Linked", "BackedUp", "Written"}

\* The stages this run has passed, in the order it passed them.
Passed == SelectSeq(stages, IsStage)

\* A run has ended, in Written or in Failed(kind).
Ended ==
    /\ pc = "done" => Passed = ScriptStages
    /\ pc = "crashed" =>
          /\ stages[Len(stages)] = "Failed"
          /\ exc \in {"copy", "open", "write"}

SectionRecords(text, begin, end, k) ==
    LET m == SectionSearch(text, begin, end)
    IN  IF m.found
        THEN Cardinality({j \in DOMAIN m.group : m.group[j].k = k})
        ELSE 0

\* C12: after a successful patch of a manifest that has both sections, the
\* PBXFileReference section holds as many file-reference records as before
\* plus the size of the batch, and the PBXBuildFile section as many
\* build-file records as before plus the size of the batch.
C12_CountsGrowByBatch ==
    Patched /\ ~SectionMissing(orig) =>
        /\ SectionRecords(disk, BeginRef, EndRef, "fr")
              = SectionRecords(orig, BeginRef, EndRef, "fr") + Len(batch)
        /\ SectionRecords(disk, BeginBuild, EndBuild, "bf")
              = SectionRecords(orig, BeginBuild, EndBuild, "bf") + Len(batch)

\* A second run has patched the output of the first: six records became
\* eleven.
C12_Witness ==
    /\ Patched
    /\ runs = 2
    /\ SectionRecords(orig, BeginRef, EndRef, "fr") = 1 + Len(batch)
    /\ SectionRecords(disk, BeginRef, EndRef, "fr") = 1 + 2 * Len(batch)
    /\ SectionRecords(disk, BeginBuild, EndBuild, "bf") = 1 + 2 * Len(batch)

\* The two sections, the two groups and a Sources phase are in the text.
TargetsPresent(text) ==
    /\ ~SectionMissing(text)
    /\ ~GroupMissing(text)
    /\ ListSearch(text, SrcOpen, Files).found

\* C13: after a successful patch of a manifest that has every place the
\* batch targets, for every name of the batch: its two
\* identifiers are fresh (not in the manifest read) and differ; the
\* manifest holds exactly one file-reference line defining the first,
\* exactly one build-file line defining the second with the first as its
\* fileRef, exactly one group line naming the first and exactly one
\* Sources line naming the second; and no build-file line of that name
\* defining the second identifier has another fileRef.
C13_OneLineEach ==
    Patched /\ TargetsPresent(orig) =>
        \A n \in Names :
            /\ file_refs[n] \notin IdsIn(orig)
            /\ build_refs[n] \notin IdsIn(orig)
            /\ build_refs[n] # file_refs[n]
            /\ Cardinality(Positions(disk, NewRefLine(n))) = 1
            /\ Cardinality(Positions(disk, NewBuildLine(n))) = 1
            /\ Cardinality(Positions(disk, NewChildLine(n))) = 1
            /\ Cardinality(Positions(disk, NewSourceLine(n))) = 1
            /\ \A j \in KindPositions(disk, "bf") :
                  disk[j].name = n /\ disk[j].id = build_refs[n]
                      => disk[j].ref = file_refs[n]

IsMarker(t) == t \in {BeginBuild, EndBuild, BeginRef, EndRef}

\* The section markers of a text, in the order they occur.
Markers(text) == SelectSeq(text, IsMarker)

\* C14: after a successful patch the section markers of the manifest are
\* those of the original, as often and in the same order (so a marker that
\* occurred once occurs once, and no two markers changed places).
C14_MarkersIntact == Patched => Markers(disk) = Markers(orig)

\* Both sections were found and patched, and the four markers are there.
C14_Witness ==
    /\ Patched
    /\ Markers(orig) = <<BeginBuild, EndBuild, BeginRef, EndRef>>
    /\ Markers(disk) = Markers(orig)
    /\ \A n \in Names :
          Positions(disk, NewRefLine(n)) # {} /\ Positions(disk, NewBuildLine(n)) # {}

\* A name of the batch already has a file-reference record in the text.
AlreadyInManifest(text) ==
    \E n \in Names : \E j \in KindPositions(text, "fr") : text[j].name = n

\* C15: a run whose batch names a file that already has a record in the
\* manifest it read does not open the manifest for writing and does not
\* end as a successful patch.
C15_RepeatsRejected == AlreadyInManifest(orig) => ~wrote /\ ~Patched

\* A section marker occurs more than once in the text.
MarkerRepeated(text) ==
    \E m \in {BeginBuild, EndBuild, BeginRef, EndRef} :
        Cardinality(Positions(text, m)) > 1

\* C16: a run on a manifest in which a section marker occurs more than once
\* does not open the manifest for writing and does not end as a successful
\* patch.
C16_RepeatedMarkerRejected == MarkerRepeated(orig) => ~wrote /\ ~Patched

\* C17: every name the summary prints has its file-reference record, its
\* build-file record, its group line and its Sources line in the manifest
\* as written.
C17_SummaryTruthful ==
    \A i \in DOMAIN printed :
        /\ Positions(disk, NewRefLine(printed[i])) # {}
        /\ Positions(disk, NewBuildLine(printed[i])) # {}
        /\ Positions(disk, NewChildLine(printed[i])) # {}
        /\ Positions(disk, NewSourceLine(printed[i])) # {}

\* The text of lines 50-102 applied to the text read: the local text once
\* every body and list has been computed.
FinalText ==
    PatchSourcesPhase(PatchViewControllersGroup(PatchServicesGroup(
        PatchFileReferences(PatchBuildFiles(orig)))))

Opens == {i \in DOMAIN stages : stages[i] = "Opened"}

\* C18: a run opens the manifest for writing at most once, and only after
\* it has computed every body and list; until then the file is as it was
\* read; the text in memory when the file is opened is the final text (all
\* five patches of the text read), and from then on the memory keeps the
\* outcome of the last patch and the file holds it or a leading part of
\* it, never the text of an earlier step.
C18_WrittenOnce ==
    /\ Cardinality(Opens) <= 1
    /\ Opens = {} => disk = orig
    /\ pc = "write" => content = FinalText
    /\ Opens # {} =>
          /\ \E i \in DOMAIN stages : stages[i] = "Linked" /\ \A o \in Opens : i < o
          /\ content = PatchSourcesPhase(before_step)
          /\ IsPrefix(disk, content)

\* The run has written the final text, which differs from the text read.
C18_Witness ==
    /\ pc = "done"
    /\ Cardinality(Opens) = 1
    /\ disk = FinalText
    /\ disk # orig

\* ------------------------------------------------------- claims C21 - C23
NotSpace(t) == ~IsSpace(t)

\* The lines of a text: its tokens without the whitespace between them.
Lines(text) == SelectSeq(text, NotSpace)

\* The record lines of the batch, one per request, in request order.
BatchBuildLines ==
    [i \in DOMAIN batch |-> BuildLine(build_refs[batch[i]], file_refs[batch[i]], batch[i])]
BatchRefLines == [i \in DOMAIN batch |-> RefLine(file_refs[batch[i]], batch[i])]

\* The section between begin and end, found in the text before the latest
\* patch, holds after it the lines it held, in their order, and then the
\* new lines, the last of them right before the line end that precedes the
\* end marker.
Appended(begin, end, new) ==
    LET old == SectionSearch(before_step, begin, end)
        now == SectionSearch(content, begin, end)
    IN  old.found =>
            /\ now.found
            /\ Lines(now.group) = Lines(old.group) \o new
            /\ Len(now.group) >= 2
            /\ now.group[Len(now.group)] = NL
            /\ now.group[Len(now.group) - 1] = new[Len(new)]

\* C21: right after the patch of a section, the section's body is the body
\* it had with the new lines appended: every line it held is kept, in its
\* order and unchanged, and the new lines follow in request order, directly
\* before the end marker.
C21_AppendedAtEnd ==
    /\ pc = "fileref" => Appended(BeginBuild, EndBuild, BatchBuildLines)
    /\ pc = "services" => Appended(BeginRef, EndRef, BatchRefLines)

\* A second run has just patched the PBXFileReference section, which held
\* the old record and the first run's records.
C21_Witness ==
    /\ pc = "services"
    /\ runs = 2
    /\ Len(Lines(SectionSearch(before_step, BeginRef, EndRef).group)) = 1 + Len(batch)
    /\ Len(Lines(SectionSearch(content, BeginRef, EndRef).group)) = 1 + 2 * Len(batch)

\* The span of a section's body and of a list's matched text: the first
\* and last position, and the text that takes its place.
SectionSpan(text, begin, end, entries) ==
    LET m == SectionSearch(text, begin, end)
        from == Min(Positions(text, begin)) + 1
    IN  IF m.found
        THEN {[from |-> from, to |-> from + Len(m.group) - 1,
               new |-> RStrip(m.group) \o <<NL>> \o entries]}
        ELSE {}

ListSpan(text, open, kw, lines) ==
    LET m == ListSearch(text, open, kw)
        from == Min(Occurrences(text, m.group))
    IN  IF m.found
        THEN {[from |-> from, to |-> from + Len(m.group) - 1, new |-> m.group \o lines]}
        ELSE {}

\* The reference splice: every targeted span is located in the text as
\* read, and each gives way to its new body; the spans do not overlap, so
\* the descending order of the replacements leaves every offset valid and
\* the result is the text with all spans replaced at once.
ReferenceSplice(text) ==
    LET spans ==
            SectionSpan(text, BeginBuild, EndBuild, new_build_entries(Len(batch)))
            \cup SectionSpan(text, BeginRef, EndRef, new_file_entries(Len(batch)))
            \cup ListSpan(text, SvcOpen, Children,
                          new_group_lines(services_names, Len(services_names)))
            \cup ListSpan(text, VCOpen, Children, new_group_lines(vc_names, Len(vc_names)))
            \cup ListSpan(text, SrcOpen, Files, new_source_lines(Len(batch)))
        piece(i) ==
            IF \E sp \in spans : sp.from = i
            THEN (CHOOSE sp \in spans : sp.from = i).new
            ELSE IF \E sp \in spans : sp.from < i /\ i <= sp.to THEN <<>>
            ELSE <<text[i]>>
    IN  Concat([i \in DOMAIN text |-> piece(i)], 1, Len(text))

\* C22: the text a successful run has written is the reference splice of
\* the text it read.
C22_EqualsReferenceSplice == Patched => disk = ReferenceSplice(orig)

\* The text a search finds for a target, <<>> when it finds none.
Found(m) == IF m.found THEN m.group ELSE <<>>

BuildBody(text) == Found(SectionSearch(text, BeginBuild, EndBuild))
RefBody(text) == Found(SectionSearch(text, BeginRef, EndRef))
ServicesList(text) == Found(ListSearch(text, SvcOpen, Children))
ViewControllersList(text) == Found(ListSearch(text, VCOpen, Children))
SourcesList(text) == Found(ListSearch(text, SrcOpen, Files))

\* C23: the patch of one target leaves the other targets as they were:
\* right after each of the five patches, the bodies and lists of the four
\* other targets are those of the text before that patch.
C23_OthersUntouched ==
    LET same(F(_)) == F(content) = F(before_step)
    IN  /\ pc = "fileref" =>
              same(RefBody) /\ same(ServicesList) /\ same(ViewControllersList)
                  /\ same(SourcesList)
        /\ pc = "services" =>
              same(BuildBody) /\ same(ServicesList) /\ same(ViewControllersList)
                  /\ same(SourcesList)
        /\ pc = "vc" =>
              same(BuildBody) /\ same(RefBody) /\ same(ViewControllersList)
                  /\ same(SourcesList)
        /\ pc = "sources" =>
              same(BuildBody) /\ same(RefBody) /\ same(ServicesList)
                  /\ same(SourcesList)
        /\ pc = "open" =>
              same(BuildBody) /\ same(RefBody) /\ same(ServicesList)
                  /\ same(ViewControllersList)

\* ------------------------------------------------------- claims C24 - C29
\* The tokens of a text.
Range(text) == {text[j] : j \in DOMAIN text}

\* The record and list lines of the manifest that the text read did not
\* hold: the lines this run put in.
PutIn == {j \in DOMAIN disk : disk[j].k \in {"bf", "fr", "ch", "src"} /\ disk[j] \notin Range(orig)}

\* The file-reference identifier and the build-file identifier a line
\* carries (0 for none).
FileId(t) == IF t.k = "bf" THEN t.ref ELSE IF t.k \in {"fr", "ch"} THEN t.id ELSE 0
BuildId(t) == IF t.k \in {"bf", "src"} THEN t.id ELSE 0

\* How often the name is in the list.
Requests(n) == Cardinality({i \in DOMAIN batch : batch[i] = n})

\* C24: after a successful patch all lines put in for one display name
\* carry the same file-reference identifier and the same build-file
\* identifier, and on the manifest with all five places each section and
\* the Sources list hold as many lines with these identifiers as the list
\* has requests of that name (two equal lines for a name listed twice).
C24_KeyedByName ==
    Patched =>
        /\ \A i, j \in PutIn :
              disk[i].name = disk[j].name =>
                  /\ FileId(disk[i]) # 0 /\ FileId(disk[j]) # 0
                        => FileId(disk[i]) = FileId(disk[j])
                  /\ BuildId(disk[i]) # 0 /\ BuildId(disk[j]) # 0
                        => BuildId(disk[i]) = BuildId(disk[j])
        /\ \A n \in Names :
              orig = FullManifest =>
                      /\ Cardinality(Positions(disk, NewRefLine(n))) = Requests(n)
                      /\ Cardinality(Positions(disk, NewBuildLine(n))) = Requests(n)
                      /\ Cardinality(Positions(disk, NewSourceLine(n))) = Requests(n)

\* The list names its first file twice, and the manifest holds two equal
\* file-reference lines and two equal build-file lines for it.
C24_Witness ==
    /\ Patched
    /\ Requests(batch[1]) = 2
    /\ Cardinality(Positions(disk, NewRefLine(batch[1]))) = 2
    /\ Cardinality(Positions(disk, NewBuildLine(batch[1]))) = 2

BuildFound(text) == SectionSearch(text, BeginBuild, EndBuild).found
RefFound(text) == SectionSearch(text, BeginRef, EndRef).found
ServicesFound(text) == ListSearch(text, SvcOpen, Children).found
ViewControllersFound(text) == ListSearch(text, VCOpen, Children).found
SourcesFound(text) == ListSearch(text, SrcOpen, Files).found

NamesOf(list) == {list[i] : i \in DOMAIN list}

\* C26: a run fails only where a call on the file system raises, never for
\* a target that is missing; a run that ended well has written the
\* manifest, which holds the lines of every target found in the text read;
\* and when none of the five was found, the manifest written is the text
\* read, and the summary lists every name all the same.
C26_TargetsIndependent ==
    /\ pc = "crashed" => exc \in {"copy", "open", "write"}
    /\ Patched =>
          /\ wrote
          /\ printed = batch
          /\ BuildFound(orig) => \A n \in Names : Positions(disk, NewBuildLine(n)) # {}
          /\ RefFound(orig) => \A n \in Names : Positions(disk, NewRefLine(n)) # {}
          /\ ServicesFound(orig) =>
                \A n \in NamesOf(services_names) : Positions(disk, NewChildLine(n)) # {}
          /\ ViewControllersFound(orig) =>
                \A n \in NamesOf(vc_names) : Positions(disk, NewChildLine(n)) # {}
          /\ SourcesFound(orig) => \A n \in Names : Positions(disk, NewSourceLine(n)) # {}
          /\ ~BuildFound(orig) /\ ~RefFound(orig) /\ ~ServicesFound(orig)
                /\ ~ViewControllersFound(orig) /\ ~SourcesFound(orig) => disk = orig

\* The latest patch has put as many copies of the line into the text as
\* the text matched for the target occurred in it.
Copies(m, line) ==
    m.found =>
        Cardinality(Positions(content, line))
            = Cardinality(Positions(before_step, line))
                  + Cardinality(Matches(before_step, m.group))

\* C27: right after each patch, every new line of the target is in the
\* text once more for every occurrence that the matched text (the section
\* body, the group's or the phase's matched prefix) had in the text before.
C27_EveryOccurrence ==
    /\ pc = "fileref" =>
          \A n \in Names :
              Copies(SectionSearch(before_step, BeginBuild, EndBuild), NewBuildLine(n))
    /\ pc = "services" =>
          \A n \in Names :
              Copies(SectionSearch(before_step, BeginRef, EndRef), NewRefLine(n))
    /\ pc = "vc" =>
          \A n \in NamesOf(services_names) :
              Copies(ListSearch(before_step, SvcOpen, Children), NewChildLine(n))
    /\ pc = "sources" =>
          \A n \in NamesOf(vc_names) :
              Copies(ListSearch(before_step, VCOpen, Children), NewChildLine(n))
    /\ pc = "open" =>
          \A n \in Names :
              Copies(ListSearch(before_step, SrcOpen, Files), NewSourceLine(n))

\* The matched prefix of the Sources phase occurred twice (two targets
\* list the same files), and each new line is there twice.
C27_Witness ==
    /\ pc = "open"
    /\ ListSearch(before_step, SrcOpen, Files).found
    /\ Cardinality(Matches(before_step, ListSearch(before_step, SrcOpen, Files).group)) = 2
    /\ \A n \in Names :
          /\ Positions(before_step, NewSourceLine(n)) = {}
          /\ Cardinality(Positions(content, NewSourceLine(n))) = 2

\* C28: a run calls uuid4 twice for every name of its list and never
\* otherwise, keeping one file-reference and one build-file identifier per
\* name; every line it puts in carries the identifiers of its name: group
\* lines the file-reference identifier, Sources lines the build-file
\* identifier, and no line any other.
C28_TwoIdentifiersPerName ==
    /\ minted <= 2 * Cardinality(Names)
    /\ (\E i \in DOMAIN stages : stages[i] = "Allocated") =>
          /\ minted = 2 * Cardinality(Names)
          /\ DOMAIN file_refs = Names
          /\ DOMAIN build_refs = Names
    /\ Patched =>
          \A j \in PutIn :
              /\ disk[j].name \in Names
              /\ disk[j].k \in {"fr", "ch"} => disk[j].id = file_refs[disk[j].name]
              /\ disk[j].k \in {"bf", "src"} => disk[j].id = build_refs[disk[j].name]
              /\ disk[j].k = "bf" => disk[j].ref = file_refs[disk[j].name]

\* A run ended well with lines of all four kinds put in.
C28_Witness ==
    /\ Patched
    /\ minted = 2 * Len(files_to_add)
    /\ \A k \in {"bf", "fr", "ch", "src"} : \E j \in PutIn : disk[j].k = k

\* Both invocations read the manifest as it was at the start, before
\* either opened it for writing.
BothReadFirst ==
    /\ orig = FullManifest
    /\ other.orig = FullManifest

\* C29: when both invocations read before either wrote and both ended
\* well, the manifest is the text of the one that wrote last, with one
\* batch of records and not two; and when the backup of the one is taken
\* after the other one has written and ended, that backup is the other
\* one's output, not the text read.
C29_LostUpdate ==
    /\ BothReadFirst /\ pc = "done" /\ other.pc = "done" =>
          /\ disk = IF last_writer = who THEN content ELSE other.content
          /\ SectionRecords(disk, BeginRef, EndRef, "fr")
                = SectionRecords(orig, BeginRef, EndRef, "fr") + Len(batch)
    /\ BothReadFirst /\ pc = "alloc" /\ idx = 1 /\ other.pc = "done" =>
          /\ backup = other.content
          /\ backup # orig

\* Both ended well after reading the same text, with different
\* identifiers; the manifest holds the lines of one of them only.
C29_Witness ==
    /\ BothReadFirst
    /\ pc = "done"
    /\ other.pc = "done"
    /\ runs = 2
    /\ last_writer = who
    /\ Values(file_refs) \cap Values(other.file_refs) = {}
    /\ disk = content
    /\ disk # other.content

\* =================================================== the model converters
\* scripts/convert_full_model.py and docker/convert_model.py: build the
\* network, convert it to CoreML, attach the metadata, save.

\* scripts/convert_full_model.py, lines 105-135.
get_organ_labels ==
    <<"background", "spleen", "kidney_right", "kidney_left", "gallbladder",
      "liver", "stomach", "pancreas", "adrenal_gland_right",
      "adrenal_gland_left", "lung_upper_lobe_left", "lung_lower_lobe_left",
      "lung_upper_lobe_right", "lung_middle_lobe_right",
      "lung_lower_lobe_right", "esophagus", "trachea", "thyroid_gland",
      "small_bowel", "duodenum", "colon", "urinary_bladder", "prostate",
      "kidney_cyst_left", "kidney_cyst_right", "sacrum", "vertebrae_S1",
      "vertebrae_L5", "vertebrae_L4", "vertebrae_L3", "vertebrae_L2",
      "vertebrae_L1", "vertebrae_T12", "vertebrae_T11", "vertebrae_T10",
      "vertebrae_T9", "vertebrae_T8", "vertebrae_T7", "vertebrae_T6",
      "vertebrae_T5", "vertebrae_T4", "vertebrae_T3", "vertebrae_T2",
      "vertebrae_T1", "vertebrae_C7", "vertebrae_C6", "vertebrae_C5",
      "vertebrae_C4", "vertebrae_C3", "vertebrae_C2", "vertebrae_C1", "heart",
      "aorta", "pulmonary_vein", "brachiocephalic_trunk",
      "subclavian_artery_right", "subclavian_artery_left",
      "common_carotid_artery_right", "common_carotid_artery_left",
      "brachiocephalic_vein_left", "brachiocephalic_vein_right", "atrium_left",
      "atrium_right", "superior_vena_cava", "inferior_vena_cava", "portal_vein",
      "iliac_artery_left", "iliac_artery_right", "iliac_vena_left",
      "iliac_vena_right", "humerus_left", "humerus_right", "scapula_left",
      "scapula_right", "clavicula_left", "clavicula_right", "femur_left",
      "femur_right", "hip_left", "hip_right", "spinal_cord",
      "gluteus_maximus_left", "gluteus_maximus_right", "gluteus_medius_left",
      "gluteus_medius_right", "gluteus_minimus_left", "gluteus_minimus_right",
      "autochthon_left", "autochthon_right", "iliopsoas_left",
      "iliopsoas_right", "brain", "skull", "rib_left_1", "rib_left_2",
      "rib_left_3", "rib_left_4", "rib_left_5", "rib_left_6", "rib_left_7",
      "rib_left_8", "rib_left_9", "rib_left_10", "rib_left_11", "rib_left_12",
      "rib_right_1", "rib_right_2", "rib_right_3", "rib_right_4", "rib_right_5",
      "rib_right_6", "rib_right_7", "rib_right_8", "rib_right_9",
      "rib_right_10", "rib_right_11", "rib_right_12", "sternum",
      "costal_cartilages">>

\* docker/convert_model.py, lines 97-124.
create_organ_labels ==
    <<"background", "spleen", "kidney_right", "kidney_left", "gallbladder",
      "liver", "stomach", "pancreas", "adrenal_gland_right",
      "adrenal_gland_left", "lung_upper_lobe_left", "lung_lower_lobe_left",
      "lung_upper_lobe_right", "lung_middle_lobe_right",
      "lung_lower_lobe_right", "esophagus", "trachea", "thyroid_gland",
      "small_bowel", "duodenum", "colon", "urinary_bladder", "prostate",
      "kidney_cyst_left", "kidney_cyst_right", "sacrum", "vertebrae_S1",
      "vertebrae_L5", "vertebrae_L4", "vertebrae_L3", "vertebrae_L2",
      "vertebrae_L1", "vertebrae_T12", "vertebrae_T11", "vertebrae_T10",
      "vertebrae_T9", "vertebrae_T8", "vertebrae_T7", "vertebrae_T6",
      "vertebrae_T5", "vertebrae_T4", "vertebrae_T3", "vertebrae_T2",
      "vertebrae_T1", "vertebrae_C7", "vertebrae_C6", "vertebrae_C5",
      "vertebrae_C4", "vertebrae_C3", "vertebrae_C2", "vertebrae_C1", "heart",
      "aorta", "pulmonary_vein", "brachiocephalic_trunk",
      "subclavian_artery_right", "subclavian_artery_left",
      "common_carotid_artery_right", "common_carotid_artery_left",
      "brachiocephalic_vein_left", "brachiocephalic_vein_right", "atrium_left",
      "atrium_right", "superior_vena_cava", "inferior_vena_cava", "portal_vein",
      "iliac_artery_left", "iliac_artery_right", "iliac_vena_left",
      "iliac_vena_right", "humerus_left", "humerus_right", "scapula_left",
      "scapula_right", "clavicula_left", "clavicula_right", "femur_left",
      "femur_right", "hip_left", "hip_right", "spinal_cord",
      "gluteus_maximus_left", "gluteus_maximus_right", "gluteus_medius_left",
      "gluteus_medius_right", "gluteus_minimus_left", "gluteus_minimus_right",
      "autochthon_left", "autochthon_right", "iliopsoas_left",
      "iliopsoas_right", "brain", "skull", "rib_left_1", "rib_left_2",
      "rib_left_3", "rib_left_4", "rib_left_5", "rib_left_6", "rib_left_7",
      "rib_left_8", "rib_left_9", "rib_left_10", "rib_left_11", "rib_left_12">>

\* The output channels of the network (num_classes=104 in both scripts).
num_classes == 104

\* str() of a natural number, as its decimal digits.
RECURSIVE str(_)
str(n) == IF n < 10 THEN <<n>> ELSE str(n \div 10) \o <<n % 10>>

\* The values of --input-size the script is run with (128 by default).
InputSizes == {64, 128, 256}

FullScript == "scripts/convert_full_model.py"
DockerScript == "docker/convert_model.py"

\* f"{model_name}.mlmodel" / f"{model_name}.mlpackage" (lines 245-248).
ModelPath(format_type) ==
    IF format_type = "neuralnetwork" THEN "TotalSegmentator.mlmodel"
    ELSE "TotalSegmentator.mlpackage"

\* No manifest is being patched.
PatcherIdle == NotStarted(<<>>, files_to_add)

ConvInit ==
    /\ PatcherIdle
    /\ ConverterIdle

\* One of the scripts is started; the output directory may hold files of an
\* earlier run.  (docker/convert_model.py takes no arguments: its input
\* shape is fixed at 128.)
StartConversion ==
    /\ cpc = "idle"
    /\ launcher = "none"
    /\ script' \in {FullScript, DockerScript}
    /\ input_size' \in IF script' = FullScript THEN InputSizes ELSE {128}
    /\ cpc' = "create"
    /\ UNCHANGED <<results, metadata, saved_models, files, stdout, status>>
    /\ UNCHANGED <<patch_vars, launch_vars>>

\* convert_full_model.py lines 559-576, convert_model.py lines 233-237: the
\* network is built (and pretrained weights loaded if there are any).
CreateModel ==
    /\ cpc = "create"
    /\ cpc' = IF script = FullScript THEN "trace" ELSE "d_convert"
    /\ UNCHANGED <<script, input_size, results, metadata, saved_models, files,
                   stdout, status>>
    /\ UNCHANGED <<patch_vars, launch_vars>>

\* convert_full_model.py lines 158-178: the model is traced; results = {}.
TraceModel ==
    /\ cpc = "trace"
    /\ results' = <<>>
    /\ cpc' = "neuralnetwork"
    /\ UNCHANGED <<script, input_size, metadata, saved_models, files, stdout,
                   status>>
    /\ UNCHANGED <<patch_vars, launch_vars>>

\* Lines 181-192: ct.convert to the Neural Network format; an exception is
\* caught and printed, and the function goes on.
ConvertNeuralNetwork ==
    /\ cpc = "neuralnetwork"
    /\ \E ok \in BOOLEAN :
          results' = IF ok THEN Append(results, "neuralnetwork") ELSE results
    /\ cpc' = "mlprogram"
    /\ UNCHANGED <<script, input_size, metadata, saved_models, files, stdout,
                   status>>
    /\ UNCHANGED <<patch_vars, launch_vars>>

\* Lines 195-207: the same for the ML Program format.
ConvertMLProgram ==
    /\ cpc = "mlprogram"
    /\ \E ok \in BOOLEAN :
          results' = IF ok THEN Append(results, "mlprogram") ELSE results
    /\ cpc' = "metadata"
    /\ UNCHANGED <<script, input_size, metadata, saved_models, files, stdout,
                   status>>
    /\ UNCHANGED <<patch_vars, launch_vars>>

\* Lines 210-240: the metadata of every converted model.
AddMetadata ==
    /\ cpc = "metadata"
    /\ LET organ_labels == get_organ_labels
       IN  metadata' =
               [format_type \in {results[i] : i \in DOMAIN results} |->
                   [organ_labels |-> organ_labels,
                    num_classes |-> str(Len(organ_labels)),
                    format |-> format_type,
                    input_shape |-> <<1, 1, input_size, input_size, input_size>>]]
    /\ saved_models' = <<>>
    /\ cpc' = "save"
    /\ UNCHANGED <<script, input_size, results, files, stdout, status>>
    /\ UNCHANGED <<patch_vars, launch_vars>>

\* Lines 244-259, one iteration: the next converted model is saved.
SaveModel ==
    /\ cpc = "save"
    /\ Len(saved_models) < Len(results)
    /\ LET model_path == ModelPath(results[Len(saved_models) + 1])
       IN  /\ files' = files \cup {model_path}
           /\ saved_models' = Append(saved_models, model_path)
    /\ UNCHANGED <<script, input_size, cpc, results, metadata, stdout, status>>
    /\ UNCHANGED <<patch_vars, launch_vars>>

\* Lines 261, 582-588: convert_to_coreml returns saved_models; the Swift
\* file and the documentation are written.
CreateSwiftAndDocs ==
    /\ cpc = "save"
    /\ Len(saved_models) = Len(results)
    /\ files' = files \cup {"TotalSegmentator.swift", "README.md"}
    /\ cpc' = "package"
    /\ UNCHANGED <<script, input_size, results, metadata, saved_models, stdout,
                   status>>
    /\ UNCHANGED <<patch_vars, launch_vars>>

\* Lines 591-607: the zip with the saved models, the Swift file and the
\* documentation.
CreatePackage ==
    /\ cpc = "package"
    /\ files' = files \cup {"TotalSegmentator_iOS_Package.zip"}
    /\ cpc' = "summary"
    /\ UNCHANGED <<script, input_size, results, metadata, saved_models, stdout,
                   status>>
    /\ UNCHANGED <<patch_vars, launch_vars>>

\* Lines 610-619: the summary is printed and main returns: exit status 0.
PrintSuccess ==
    /\ cpc = "summary"
    /\ stdout' = Append(stdout, "CONVERSION SUCCESSFUL!")
    /\ status' = 0
    /\ cpc' = "exited"
    /\ UNCHANGED <<script, input_size, results, metadata, saved_models, files>>
    /\ UNCHANGED <<patch_vars, launch_vars>>

\* docker/convert_model.py lines 127-165: the conversion with the modern
\* API, or with the basic one when the modern one raised.
DockerConvert ==
    /\ cpc = "d_convert"
    /\ \E api \in {"modern", "basic"} : results' = <<api>>
    /\ cpc' = "d_metadata"
    /\ UNCHANGED <<script, input_size, metadata, saved_models, files, stdout,
                   status>>
    /\ UNCHANGED <<patch_vars, launch_vars>>

\* docker/convert_model.py lines 168-198 (add_metadata).
DockerAddMetadata ==
    /\ cpc = "d_metadata"
    /\ LET organ_labels == create_organ_labels
       IN  metadata' =
               [m \in {"model"} |->
                   [organ_labels |-> organ_labels,
                    num_classes |-> str(num_classes),
                    format |-> "neuralnetwork",
                    input_shape |-> <<1, 1, 128, 128, 128>>]]
    /\ cpc' = "d_optimize"
    /\ UNCHANGED <<script, input_size, results, saved_models, files, stdout,
                   status>>
    /\ UNCHANGED <<patch_vars, launch_vars>>

\* docker/convert_model.py lines 201-223 and 249: palettization, or the
\* model as it is when that raised.
DockerOptimize ==
    /\ cpc = "d_optimize"
    /\ \E ok \in BOOLEAN :
          results' = IF ok THEN Append(results, "palettized") ELSE results
    /\ cpc' = "d_save"
    /\ UNCHANGED <<script, input_size, metadata, saved_models, files, stdout,
                   status>>
    /\ UNCHANGED <<patch_vars, launch_vars>>

\* docker/convert_model.py lines 252-278: the model and metadata.json.
DockerSave ==
    /\ cpc = "d_save"
    /\ files' = files \cup {"TotalSegmentator.mlpackage", "metadata.json"}
    /\ saved_models' = <<"TotalSegmentator.mlpackage">>
    /\ cpc' = "summary"
    /\ UNCHANGED <<script, input_size, results, metadata, stdout, status>>
    /\ UNCHANGED <<patch_vars, launch_vars>>

\* An exception inside main's try block (building or tracing the model,
\* saving a file, zipping): main prints it and calls sys.exit(1).  What was
\* saved before stays on disk.
ConversionFails ==
    /\ cpc \in {"create", "trace", "save", "package", "d_convert", "d_save"}
    /\ stdout' = Append(stdout, "Conversion failed")
    /\ status' = 1
    /\ cpc' = "exited"
    /\ UNCHANGED <<script, input_size, results, metadata, saved_models, files>>
    /\ UNCHANGED <<patch_vars, launch_vars>>

\* The script is run again on the same output directory.
RunAgain ==
    /\ \/ cpc = "exited" /\ launcher = "none"
       \/ launcher = "exited"
    /\ Len(stdout) < MaxConversions
    /\ script' = "none"
    /\ input_size' = 0
    /\ cpc' = "idle"
    /\ results' = <<>>
    /\ metadata' = EmptyDict
    /\ saved_models' = <<>>
    /\ status' = -1
    /\ launcher' = "none"
    /\ exit_code' = -1
    /\ UNCHANGED <<files, stdout>>
    /\ UNCHANGED patch_vars

\* ------------------------------------------------------------ convert.py
\* os.system on POSIX: the wait status of a child that exited with code c.
WaitStatus(c) == c * 256

\* sys.exit(n) of an integer: the process exit code is its low byte.
ExitCode(n) == n % 256

\* Lines 11-13: scripts/convert_full_model.py is there and is run without
\* arguments, so with the default --input-size of 128.
RunLauncher ==
    /\ launcher = "none"
    /\ cpc = "idle"
    /\ launcher' = "running"
    /\ script' = FullScript
    /\ input_size' = 128
    /\ cpc' = "create"
    /\ UNCHANGED <<results, metadata, saved_models, files, stdout, status, exit_code>>
    /\ UNCHANGED patch_vars

\* Line 13: the child has ended; its wait status goes to sys.exit.
LauncherExits ==
    /\ launcher = "running"
    /\ cpc = "exited"
    /\ launcher' = "exited"
    /\ exit_code' = ExitCode(WaitStatus(status))
    /\ UNCHANGED <<script, input_size, cpc, results, metadata, saved_models, files,
                   stdout, status>>
    /\ UNCHANGED patch_vars

\* Lines 14-24: the script is not there; the error is printed, the
\* directories are walked, and the launcher exits with 1.
LauncherScriptMissing ==
    /\ launcher = "none"
    /\ cpc = "idle"
    /\ launcher' = "exited"
    /\ exit_code' = 1
    /\ stdout' = Append(stdout, "Error: Cannot find scripts/convert_full_model.py")
    /\ UNCHANGED <<script, input_size, cpc, results, metadata, saved_models, files,
                   status>>
    /\ UNCHANGED patch_vars

ConvNext ==
    \/ StartConversion
    \/ CreateModel
    \/ TraceModel
    \/ ConvertNeuralNetwork
    \/ ConvertMLProgram
    \/ AddMetadata
    \/ SaveModel
    \/ CreateSwiftAndDocs
    \/ CreatePackage
    \/ PrintSuccess
    \/ DockerConvert
    \/ DockerAddMetadata
    \/ DockerOptimize
    \/ DockerSave
    \/ ConversionFails
    \/ RunAgain
    \/ RunLauncher
    \/ LauncherExits
    \/ LauncherScriptMissing

ConvSpec == ConvInit /\ [][ConvNext]_vars

\* The script convert_full_model.py has reported success.
ReportedSuccess ==
    /\ script = FullScript
    /\ cpc = "exited"
    /\ status = 0
    /\ stdout[Len(stdout)] = "CONVERSION SUCCESSFUL!"

\* C19: each list of organ labels has num_classes = 104 entries, and the
\* metadata of every converted model holds a list of 104 labels and 104 as
\* its num_classes.
C19_LabelsMatchClasses ==
    \A m \in DOMAIN metadata :
        /\ Len(metadata[m].organ_labels) = num_classes
        /\ metadata[m].num_classes = str(num_classes)
        /\ metadata[m].num_classes = str(Len(metadata[m].organ_labels))
        /\ Len(get_organ_labels) = num_classes
        /\ Len(create_organ_labels) = num_classes

\* C20: whenever convert_full_model.py has reported success, its list of
\* saved models is not empty and each of them is a file on disk.
C20_SuccessYieldsModel ==
    ReportedSuccess =>
        /\ saved_models # <<>>
        /\ \A i \in DOMAIN saved_models : saved_models[i] \in files

\* The launcher has ended after running the script.
LauncherRanScript ==
    /\ launcher = "exited"
    /\ cpc = "exited"

\* C30: the exit code of convert.py is not zero whenever the script it ran
\* exited with a code that is not zero, and it is 1 when the script was
\* not found.
C30_FailurePropagates ==
    /\ LauncherRanScript /\ status # 0 => exit_code # 0
    /\ launcher = "exited" /\ cpc = "idle" => exit_code = 1

====
